---- MODULE Spec2Model ----
(***************************************************************************)
(* A model of the Gaussian-process P1D emulator of LyaCosmoParams         *)
(* (class GPEmulator, p1d_emulator/py/gp_emulator.py), and of the point    *)
(* LinearEmulator builds from a model (linear_emulator.py).               *)
(*                                                                         *)
(* Four specifications share the module:                                   *)
(*   Spec         persistence and life cycle: two GPEmulator instances     *)
(*                sharing one basedir (train, load_hyperparams,            *)
(*                saveEmulator, loadEmulator);                             *)
(*   SpecRescale  construction of one instance from every small archive    *)
(*                and every paramLimits option;                            *)
(*   SpecPredict  predict and emulate_p1d_Mpc on one instance;             *)
(*   SpecQuery    return_unit_call, check_in_hull, get_nearest_distance    *)
(*                and get_param_dict on one instance.                      *)
(*                                                                         *)
(* Numbers: archive parameters and wavenumbers are small integers, and a   *)
(* rescaled value is the exact quotient it is computed from (numerator,    *)
(* denominator), or numpy's nan / inf when the denominator is zero.        *)
(* Floating-point rounding is not modelled.                                *)
(***************************************************************************)
EXTENDS Integers, Sequences, FiniteSets, TLC

VARIABLES arxiv, inst, files, last

vars == <<arxiv, inst, files, last>>

(***************************************************************************)
(* Bounds of the model.                                                    *)
(***************************************************************************)
\* archive parameter values are drawn from 0..MaxVal
MaxVal == 2
\* records of an archive drawn by SpecRescale
NRec == 3
\* saved_emulator_N files the basedir can hold: a save that would need
\* suffix MaxFiles+1 is not taken
MaxFiles == 3
\* hyperparameter vectors an optimisation or a caller can produce: 1..NHyp
NHyp == 2

\* the two instances of Spec; SpecRescale and SpecPredict use only "A"
Inst == {"A", "B"}

(***************************************************************************)
(* Python values, as far as the fingerprint needs them.  Every value is a  *)
(* record of one shape: its type t, a number n (bool: 0/1, int: the value, *)
(* float: thousandths) and a sequence of strings s (str: one string, list  *)
(* and tuple: the elements).                                               *)
(***************************************************************************)
PyNone == [t |-> "none", n |-> 0, s |-> <<>>]
PyBool(b) == [t |-> "bool", n |-> IF b THEN 1 ELSE 0, s |-> <<>>]
PyInt(i) == [t |-> "int", n |-> i, s |-> <<>>]
PyFloat(thousandths) == [t |-> "float", n |-> thousandths, s |-> <<>>]
PyStr(x) == [t |-> "str", n |-> 0, s |-> <<x>>]
PyList(q) == [t |-> "list", n |-> 0, s |-> q]
PyTuple(q) == [t |-> "tuple", n |-> 0, s |-> q]

IsNum(v) == v.t \in {"bool", "int", "float"}
\* the numeric value, in thousandths
Num(v) == IF v.t = "float" THEN v.n ELSE v.n * 1000

\* Python's truth value, as `if x` and `x or y` take it
Truthy(v) ==
    CASE IsNum(v) -> v.n # 0
      [] v.t = "none" -> FALSE
      [] OTHER -> v.s # <<>>

\* Python's ==: numbers (bool included) by value, everything else by type
\* and content; a list never equals a tuple
PyEq(a, b) ==
    IF IsNum(a) /\ IsNum(b) THEN Num(a) = Num(b)
    ELSE a.t = b.t /\ a.s = b.s

\* json.dump: true/false, numbers and strings as they are; a list and a
\* tuple both become a JSON array
JsonDump(v) ==
    CASE v.t = "bool" -> [t |-> "jbool", n |-> v.n, s |-> v.s]
      [] v.t = "int" -> [t |-> "jint", n |-> v.n, s |-> v.s]
      [] v.t = "float" -> [t |-> "jfloat", n |-> v.n, s |-> v.s]
      [] v.t = "str" -> [t |-> "jstr", n |-> v.n, s |-> v.s]
      [] v.t \in {"list", "tuple"} -> [t |-> "jarray", n |-> 0, s |-> v.s]
      [] OTHER -> [t |-> "jnull", n |-> 0, s |-> <<>>]

\* json.load: a JSON array becomes a list
JsonLoad(j) ==
    CASE j.t = "jbool" -> [t |-> "bool", n |-> j.n, s |-> j.s]
      [] j.t = "jint" -> [t |-> "int", n |-> j.n, s |-> j.s]
      [] j.t = "jfloat" -> [t |-> "float", n |-> j.n, s |-> j.s]
      [] j.t = "jstr" -> [t |-> "str", n |-> j.n, s |-> j.s]
      [] j.t = "jarray" -> [t |-> "list", n |-> 0, s |-> j.s]
      [] OTHER -> PyNone

\* the keys of initParams
FpFields ==
    {"k_bin", "emu_type", "emu_noise", "drop_tau_rescalings",
     "drop_temp_rescalings", "keep_every_other_rescaling", "undersample_z",
     "paramList", "asymmetric_kernel", "z_max"}

\* json.dump / json.load of a dictionary with these keys
JsonDumpDict(d) == [f \in FpFields |-> JsonDump(d[f])]
JsonLoadDict(j) == [f \in FpFields |-> JsonLoad(j[f])]

\* fileInitDict==initParams: equal key sets (always FpFields here) and equal
\* values under ==
DictEq(a, b) == \A f \in FpFields : PyEq(a[f], b[f])

(***************************************************************************)
(* Exact quotients, and numpy's result of a division by zero.              *)
(***************************************************************************)
Sign(x) == IF x > 0 THEN 1 ELSE IF x < 0 THEN -1 ELSE 0

Fin(num, den) == [k |-> "fin", n |-> num, d |-> den]
NaN == [k |-> "nan", n |-> 0, d |-> 1]
Inf(sgn) == [k |-> "inf", n |-> sgn, d |-> 1]

\* numpy's float division: x/0 is inf, 0/0 is nan (a RuntimeWarning, no
\* exception); the quotient is kept with a positive denominator
NpDiv(num, den) ==
    IF den = 0 THEN (IF num = 0 THEN NaN ELSE Inf(Sign(num)))
    ELSE IF den < 0 THEN Fin(-num, -den) ELSE Fin(num, den)

IsFinite(v) == v.k = "fin"
\* comparisons of finite quotients (denominators are positive)
QLe(a, b) == a.n * b.d <= b.n * a.d
QEq(a, b) == a.n * b.d = b.n * a.d
QZero == Fin(0, 1)
QOne == Fin(1, 1)

(***************************************************************************)
(* The archive (p1d_arxiv.ArxivP1D, an external collaborator): an ordered  *)
(* collection of records.  A record holds its two parameters mF and        *)
(* Delta2_p; every record shares the wavenumber grid KGrid.                *)
(***************************************************************************)
ParamNames == {"mF", "Delta2_p"}
ParamVals == 0 .. MaxVal
Records == [ParamNames -> ParamVals]

\* arxiv.data[0]["k_Mpc"]: ascending wavenumbers
KGrid == <<1, 2, 3, 4, 5, 6>>

\* the records ArxivP1D keeps: all of them, or the first max_arxiv_size
ArxivP1D(data, max_arxiv_size) ==
    IF max_arxiv_size.t = "none" \/ max_arxiv_size.n >= Len(data) THEN data
    ELSE SubSeq(data, 1, max_arxiv_size.n)

(***************************************************************************)
(* GPEmulator.__init__                                                     *)
(***************************************************************************)
\* paramList=None: "take all parameters" (the archive of the model has two)
AllParams == PyList(<<"mF", "Delta2_p">>)

NoLimits == [given |-> FALSE, tab |-> <<<<0, 0>>, <<0, 0>>>>]
GivenLimits(tab) == [given |-> TRUE, tab |-> tab]

\* the constructor's arguments at their defaults
DefaultArgs ==
    [kmax_Mpc |-> 10, emu_type |-> "k_bin", set_noise_var |-> PyFloat(1),
     max_arxiv_size |-> PyNone, drop_tau_rescalings |-> PyBool(FALSE),
     drop_temp_rescalings |-> PyBool(FALSE),
     keep_every_other_rescaling |-> PyBool(FALSE),
     undersample_z |-> PyInt(1), paramList |-> PyNone,
     asymmetric_kernel |-> PyBool(FALSE), z_max |-> PyInt(5),
     passArxiv |-> FALSE, checkHulls |-> FALSE, paramLimits |-> NoLimits,
     train |-> FALSE, p1d_label |-> "p1d", skewers_label |-> "Ns50"]

\* int(np.max(np.argwhere(k_Mpc<kmax_Mpc))): the (0-based) index of the last
\* wavenumber below kmax_Mpc; -1 stands for np.max of nothing (ValueError)
KBinOf(kmax_Mpc) ==
    LET below == {i \in 1 .. Len(KGrid) : KGrid[i] < kmax_Mpc}
    IN IF below = {} THEN -1
       ELSE (CHOOSE i \in below : \A j \in below : j <= i) - 1

\* k_Mpc[:k_bin]
TrainingKBins(k_bin) == SubSeq(KGrid, 1, k_bin)

\* _buildTrainingSets: params[aa][bb]=arxiv.data[aa][paramList[bb]]
BuildParams(data, names) ==
    [aa \in 1 .. Len(data) |-> [bb \in 1 .. Len(names) |-> data[aa][names[bb]]]]

SetMin(S) == CHOOSE x \in S : \A y \in S : x <= y
SetMax(S) == CHOOSE x \in S : \A y \in S : y <= x

\* _get_param_limits: (min, max) of every column of the grid
GetParamLimits(grid) ==
    [aa \in 1 .. Len(grid[1]) |->
        LET col == {grid[r][aa] : r \in 1 .. Len(grid)}
        IN <<SetMin(col), SetMax(col)>>]

\* a rescaling that divides by the maximum, not by the range
RescaleByMax(params, paramLimits) ==
    [aa \in 1 .. Len(params) |->
        NpDiv(params[aa] - paramLimits[aa][1], paramLimits[aa][2])]

\* _rescale_params: (x - min) / (max - min), column by column
RescaleParams(params, paramLimits) ==
    [aa \in 1 .. Len(params) |->
        NpDiv(params[aa] - paramLimits[aa][1],
              paramLimits[aa][2] - paramLimits[aa][1])]

\* whether rescaling against these limits divides by a zero range
ZeroRange(paramLimits) ==
    \E aa \in 1 .. Len(paramLimits) : paramLimits[aa][2] = paramLimits[aa][1]

(***************************************************************************)
(* scipy.spatial.Delaunay over a two-column grid.                          *)
(***************************************************************************)
\* the sign of the cross product (b-a) x (c-a) of three finite points:
\* (b1-a1)(c2-a2) - (b2-a2)(c1-a1), over the common (positive) denominator
Orient(a, b, c) ==
    LET bx == b[1].n * a[1].d - a[1].n * b[1].d
        cy == c[2].n * a[2].d - a[2].n * c[2].d
        by == b[2].n * a[2].d - a[2].n * b[2].d
        cx == c[1].n * a[1].d - a[1].n * c[1].d
    IN Sign(bx * cy * b[2].d * c[1].d - by * cx * b[1].d * c[2].d)

GridFinite(grid) ==
    \A r \in 1 .. Len(grid) : \A c \in 1 .. Len(grid[r]) : IsFinite(grid[r][c])

\* Delaunay(X) succeeds: finite points, three of them not on one line
DelaunayOk(grid) ==
    /\ GridFinite(grid)
    /\ \E a, b, c \in 1 .. Len(grid) :
          a < b /\ b < c /\ Orient(grid[a], grid[b], grid[c]) # 0

\* p lies in the closed triangle a b c
InTriangle(p, a, b, c) ==
    LET o == {Orient(a, b, p), Orient(b, c, p), Orient(c, a, p)}
    IN Orient(a, b, c) # 0 /\ ~(1 \in o /\ -1 \in o)

\* hull.find_simplex(p) >= 0: some simplex of the triangulation holds p,
\* which is the case exactly for the points of the convex hull
FindSimplexHit(grid, p) ==
    /\ \A c \in 1 .. Len(p) : IsFinite(p[c])
    /\ \E a, b, c \in 1 .. Len(grid) :
          a < b /\ b < c /\ InTriangle(p, grid[a], grid[b], grid[c])

(***************************************************************************)
(* The instance GPEmulator(...) builds from `data`, the records under      *)
(* basedir (or of the archive passed in).  hyp is what the optimiser       *)
(* returns should train=True.  `built` is "ok", or the exception that      *)
(* ended __init__; the fields of an instance that was not built hold what  *)
(* had been computed by then.                                              *)
(***************************************************************************)
Construct(args, data, hyp) ==
    LET custom == args.passArxiv
        mydata == IF custom THEN data ELSE ArxivP1D(data, args.max_arxiv_size)
        k_bin == KBinOf(args.kmax_Mpc)
        paramList == IF args.paramList.t = "none" THEN AllParams
                     ELSE args.paramList
        early == IF mydata = <<>> THEN "IndexError"
                 ELSE IF k_bin < 0 THEN "ValueError"
                 ELSE IF args.emu_type \notin {"k_bin", "polyfit"} THEN "quit"
                 ELSE "ok"
        raw == BuildParams(mydata, paramList.s)
        limits == IF early # "ok" THEN NoLimits.tab
                  ELSE IF args.paramLimits.given THEN args.paramLimits.tab
                  ELSE GetParamLimits(raw)
        grid == IF early # "ok" THEN <<>>
                ELSE [cc \in 1 .. Len(raw) |-> RescaleParams(raw[cc], limits)]
        hullOk == early = "ok" /\ DelaunayOk(grid)
    IN [built |-> IF early # "ok" THEN early
                  ELSE IF hullOk THEN "ok" ELSE "QhullError",
        args |-> args,
        custom_arxiv |-> custom,
        data |-> mydata,
        k_bin |-> k_bin,
        paramList |-> paramList,
        paramLimits |-> limits,
        X_param_grid |-> grid,
        divZero |-> early = "ok" /\ ZeroRange(limits),
        trained |-> early = "ok" /\ args.train,
        gp |-> IF early = "ok" /\ args.train THEN hyp ELSE 0]

(***************************************************************************)
(* The record of the last call: the operation, the instance, how it ended  *)
(* and what it reported.                                                   *)
(***************************************************************************)
NoK == [scalar |-> FALSE, ks |-> <<>>]
NoCall ==
    [op |-> "none", who |-> "A", out |-> "none", at |-> 0, warned |-> FALSE,
     kwarned |-> FALSE, gpEval |-> FALSE,
     model |-> [mF |-> 0, Delta2_p |-> 0], k |-> NoK, flag |-> FALSE]
Call(op, who, out) == [NoCall EXCEPT !.op = op, !.who = who, !.out = out]

(***************************************************************************)
(* basedir: saved_emulator_N.json and saved_emulator_N.npy, N = 1, 2, ...  *)
(***************************************************************************)
Suffixes == 1 .. MaxFiles
JsonNull == [t |-> "jnull", n |-> 0, s |-> <<>>]
NoJson == [isfile |-> FALSE, dict |-> [f \in FpFields |-> JsonNull]]
NoNpy == [isfile |-> FALSE, array |-> 0]
NoFile == [json |-> NoJson, npy |-> NoNpy]

\* initParams of saveEmulator and loadEmulator
InitParams(self) ==
    [k_bin |-> PyInt(self.k_bin),
     emu_type |-> PyStr(self.args.emu_type),
     emu_noise |-> self.args.set_noise_var,
     drop_tau_rescalings |-> self.args.drop_tau_rescalings,
     drop_temp_rescalings |-> self.args.drop_temp_rescalings,
     keep_every_other_rescaling |-> self.args.keep_every_other_rescaling,
     undersample_z |-> self.args.undersample_z,
     paramList |-> self.paramList,
     asymmetric_kernel |-> self.args.asymmetric_kernel,
     z_max |-> self.args.z_max]

\* a comparison that overlooks drop_tau_rescalings
FileMatchesButTau(json, initParams) ==
    \A f \in FpFields \ {"drop_tau_rescalings"} :
        PyEq(JsonLoad(json.dict[f]), initParams[f])

\* fileInitDict=json.load(json_file); fileInitDict==initParams
FileMatches(json, initParams) == DictEq(JsonLoadDict(json.dict), initParams)

\* the scan `aa=1; while os.path.isfile(...json)`: where it stops, and
\* whether it stopped on a match
RECURSIVE Scan(_, _, _)
Scan(dir, initParams, aa) ==
    IF aa \notin DOMAIN dir \/ ~dir[aa].json.isfile
        THEN [found |-> FALSE, aa |-> aa]
    ELSE IF FileMatches(dir[aa].json, initParams)
        THEN [found |-> TRUE, aa |-> aa]
    ELSE Scan(dir, initParams, aa + 1)

\* a guard that forgets the size cap
NonStandardCustomOnly(self) == self.custom_arxiv

\* self.custom_arxiv or self.max_arxiv_size
NonStandard(self) == self.custom_arxiv \/ Truthy(self.args.max_arxiv_size)

(***************************************************************************)
(* The operations of the life cycle and of persistence.                    *)
(***************************************************************************)
\* train(): initialise the parameters, optimise (to some vector hyp), set
\* the flag; nothing is checked first
Train(i) ==
    /\ inst[i].built = "ok"
    /\ \E hyp \in 1 .. NHyp :
          inst' = [inst EXCEPT ![i].gp = hyp, ![i].trained = TRUE]
    /\ last' = Call("train", i, "trained")
    /\ UNCHANGED <<arxiv, files>>

\* load_hyperparams(hyperparams): install the caller's vector, set the flag;
\* nothing is checked first
LoadHyperparams(i) ==
    /\ inst[i].built = "ok"
    /\ \E hyp \in 1 .. NHyp :
          inst' = [inst EXCEPT ![i].gp = hyp, ![i].trained = TRUE]
    /\ last' = Call("load_hyperparams", i, "loaded")
    /\ UNCHANGED <<arxiv, files>>

\* saveEmulator()
SaveEmulator(i) ==
    LET self == inst[i]
        initParams == InitParams(self)
        scan == Scan(files, initParams, 1)
    IN /\ self.built = "ok"
       /\ IF NonStandard(self)
             THEN /\ last' = Call("saveEmulator", i, "refused")
                  /\ files' = files
          ELSE IF ~self.trained
             THEN /\ last' = Call("saveEmulator", i, "refused")
                  /\ files' = files
          ELSE IF scan.found
             THEN /\ last' = [Call("saveEmulator", i, "already")
                                 EXCEPT !.at = scan.aa]
                  /\ files' = files
          ELSE /\ scan.aa \in Suffixes
               /\ last' = [Call("saveEmulator", i, "saved")
                              EXCEPT !.at = scan.aa]
               /\ files' = [files EXCEPT ![scan.aa] =
                     [json |-> [isfile |-> TRUE,
                                dict |-> JsonDumpDict(initParams)],
                      npy |-> [isfile |-> TRUE, array |-> self.gp]]]
       /\ UNCHANGED <<arxiv, inst>>

\* loadEmulator()
LoadEmulator(i) ==
    LET self == inst[i]
        scan == Scan(files, InitParams(self), 1)
    IN /\ self.built = "ok"
       /\ IF NonStandard(self) \/ self.trained
             THEN /\ last' = Call("loadEmulator", i, "refused")
                  /\ inst' = inst
          ELSE IF ~scan.found
             THEN /\ last' = Call("loadEmulator", i, "notfound")
                  /\ inst' = inst
          ELSE IF ~files[scan.aa].npy.isfile
             \* np.load raises after initialize_parameter(); self.trained
             \* is not set
             THEN /\ last' = [Call("loadEmulator", i, "FileNotFoundError")
                                 EXCEPT !.at = scan.aa]
                  /\ inst' = [inst EXCEPT ![i].gp = 0]
          ELSE /\ last' = [Call("loadEmulator", i, "loaded")
                              EXCEPT !.at = scan.aa]
               /\ inst' = [inst EXCEPT ![i].gp = files[scan.aa].npy.array,
                                       ![i].trained = TRUE]
       /\ UNCHANGED <<arxiv, files>>

(***************************************************************************)
(* Spec: two instances over the standard archive of one basedir.           *)
(***************************************************************************)
\* the records under basedir: a triangle of the parameter plane and a
\* point of it
StdArxiv ==
    << [mF |-> 0, Delta2_p |-> 0], [mF |-> MaxVal, Delta2_p |-> 0],
       [mF |-> 0, Delta2_p |-> MaxVal], [mF |-> 1, Delta2_p |-> 1] >>

\* the constructor calls of Spec: the defaults, the defaults with one
\* argument changed, and the polyfit emulator with a smaller kmax_Mpc
SaveArgs ==
    { DefaultArgs,
      [DefaultArgs EXCEPT !.emu_type = "polyfit"],
      [DefaultArgs EXCEPT !.set_noise_var = PyFloat(2)],
      [DefaultArgs EXCEPT !.drop_tau_rescalings = PyBool(TRUE)],
      [DefaultArgs EXCEPT !.drop_temp_rescalings = PyBool(TRUE)],
      [DefaultArgs EXCEPT !.keep_every_other_rescaling = PyBool(TRUE)],
      [DefaultArgs EXCEPT !.undersample_z = PyInt(2)],
      [DefaultArgs EXCEPT !.paramList = PyList(<<"Delta2_p", "mF">>)],
      [DefaultArgs EXCEPT !.paramList = PyTuple(<<"mF", "Delta2_p">>)],
      [DefaultArgs EXCEPT !.asymmetric_kernel = PyBool(TRUE)],
      [DefaultArgs EXCEPT !.z_max = PyInt(4)],
      [DefaultArgs EXCEPT !.z_max = PyFloat(5000)],
      [DefaultArgs EXCEPT !.kmax_Mpc = 6],
      [DefaultArgs EXCEPT !.kmax_Mpc = 7],
      [DefaultArgs EXCEPT !.max_arxiv_size = PyInt(3)],
      [DefaultArgs EXCEPT !.max_arxiv_size = PyInt(0)],
      [DefaultArgs EXCEPT !.passArxiv = TRUE],
      [DefaultArgs EXCEPT !.train = TRUE],
      [DefaultArgs EXCEPT !.p1d_label = "p1d_other"],
      [DefaultArgs EXCEPT !.skewers_label = "Ns100"],
      [DefaultArgs EXCEPT !.paramLimits =
          GivenLimits(<<<<0, MaxVal + 1>>, <<0, MaxVal + 1>>>>)],
      [DefaultArgs EXCEPT !.emu_type = "polyfit", !.kmax_Mpc = 7] }

\* the second instance is constructed like the first, or like the first
\* but for kmax_Mpc, or with the defaults, or with the defaults and
\* drop_tau_rescalings=True
SecondArgs(a) ==
    { a, [a EXCEPT !.kmax_Mpc = DefaultArgs.kmax_Mpc], DefaultArgs,
      [DefaultArgs EXCEPT !.drop_tau_rescalings = PyBool(TRUE)] }

Init ==
    /\ arxiv = StdArxiv
    /\ \E a \in SaveArgs : \E b \in SecondArgs(a) :
          \E ha, hb \in 1 .. NHyp :
             inst = [i \in Inst |-> IF i = "A" THEN Construct(a, StdArxiv, ha)
                                    ELSE Construct(b, StdArxiv, hb)]
    /\ files = [aa \in Suffixes |-> NoFile]
    /\ last = NoCall

Next ==
    \E i \in Inst :
        \/ Train(i)
        \/ LoadHyperparams(i)
        \/ SaveEmulator(i)
        \/ LoadEmulator(i)

Spec == Init /\ [][Next]_vars

(***************************************************************************)
(* Properties of persistence and of the life cycle, under Spec.            *)
(***************************************************************************)
\* what a fingerprint value denotes: a number, a string, or a sequence of
\* parameter names (read off a Python value or off a JSON value)
Denotes(v) ==
    CASE v.t \in {"bool", "jbool", "int", "jint"} -> <<"number", v.n * 1000, <<>> >>
      [] v.t \in {"float", "jfloat"} -> <<"number", v.n, <<>> >>
      [] v.t \in {"str", "jstr"} -> <<"string", 0, v.s>>
      [] v.t \in {"list", "tuple", "jarray"} -> <<"sequence", 0, v.s>>
      [] OTHER -> <<"null", 0, <<>> >>

\* the fields in which a stored fingerprint differs from an instance's
DiffFields(json, self) ==
    {f \in FpFields : Denotes(json.dict[f]) # Denotes(InitParams(self)[f])}

Standard(self) == ~self.custom_arxiv /\ self.args.max_arxiv_size.t = "none"

\* C1: saveEmulator is idempotent: the basedir never holds two saved states
\* with the same fingerprint (a second save of a configuration writes no
\* file), whatever the configuration values are.
C1_OneStatePerFingerprint ==
    \A a, b \in Suffixes :
        (a # b /\ files[a].json.isfile /\ files[b].json.isfile)
            => files[a].json.dict # files[b].json.dict

\* C2: loadEmulator installs hyperparameters only from a saved state whose
\* fingerprint differs from the loader's in no field; when every saved state
\* differs in some field, a load by an untrained instance on a standard
\* archive ends "notfound", without an exception, and changes nothing of
\* the instance.
C2_NoMismatchedLoad ==
    [][\A i \in Inst :
         (last'.op = "loadEmulator" /\ last'.who = i) =>
            /\ inst'[i] # inst[i] =>
                  /\ last'.out = "loaded"
                  /\ files[last'.at].json.isfile
                  /\ DiffFields(files[last'.at].json, inst[i]) = {}
                  /\ inst'[i].gp = files[last'.at].npy.array
            /\ ( /\ Standard(inst[i]) /\ ~inst[i].trained
                 /\ \A aa \in Suffixes : files[aa].json.isfile =>
                        DiffFields(files[aa].json, inst[i]) # {} )
               => (last'.out = "notfound" /\ inst' = inst)]_vars

\* C2 witness: a load that ended "notfound" although a state saved with
\* drop_tau_rescalings=True, and equal in every other field, was there
C2_Witness ==
    /\ last.op = "loadEmulator" /\ last.out = "notfound"
    /\ ~inst[last.who].trained
    /\ inst[last.who].args.drop_tau_rescalings = PyBool(FALSE)
    /\ \E aa \in Suffixes :
          /\ files[aa].json.isfile
          /\ DiffFields(files[aa].json, inst[last.who]) = {"drop_tau_rescalings"}

\* C3: a save by a trained instance followed by a load by an untrained
\* instance of identical configuration makes the loader trained, with the
\* hyperparameters that were saved.
C3_RoundTrip ==
    [][( /\ last.op = "saveEmulator" /\ last.out = "saved"
         /\ last'.op = "loadEmulator" /\ last'.who # last.who
         /\ inst[last'.who].args = inst[last.who].args
         /\ ~inst[last'.who].trained )
       => ( /\ inst'[last'.who].trained
            /\ inst'[last'.who].gp = files[last.at].npy.array )]_vars

\* C4: once an instance is trained, a later train, loadEmulator or
\* load_hyperparams on it is refused and leaves its hyperparameters as they
\* are, and the flag stays set.
C4_OneWay ==
    [][\A i \in Inst :
         ( /\ inst[i].trained /\ last'.who = i
           /\ last'.op \in {"train", "loadEmulator", "load_hyperparams"} )
         => ( /\ last'.out = "refused"
              /\ inst'[i].gp = inst[i].gp
              /\ inst'[i].trained )]_vars

\* max_arxiv_size was given
SizeCapped(self) == self.args.max_arxiv_size.t # "none"

\* C6: saveEmulator by an untrained instance, or by one on a caller-supplied
\* or size-capped archive, is refused and leaves the basedir as it is;
\* loadEmulator on a caller-supplied or size-capped archive is refused and
\* leaves the instance as it is.
C6_DisallowedChangeNothing ==
    [][\A i \in Inst :
         /\ ( /\ last'.op = "saveEmulator" /\ last'.who = i
              /\ (~inst[i].trained \/ inst[i].custom_arxiv \/ SizeCapped(inst[i])) )
            => (last'.out = "refused" /\ files' = files /\ inst' = inst)
         /\ ( /\ last'.op = "loadEmulator" /\ last'.who = i
              /\ (inst[i].custom_arxiv \/ SizeCapped(inst[i])) )
            => (last'.out = "refused" /\ inst' = inst /\ files' = files)]_vars

\* C6 witness: a refused load on a size-capped archive although a saved
\* state with an equal fingerprint exists
C6_Witness ==
    /\ last.op = "loadEmulator" /\ last.out = "refused"
    /\ SizeCapped(inst[last.who]) /\ ~inst[last.who].trained
    /\ \E aa \in Suffixes :
          /\ files[aa].json.isfile
          /\ DiffFields(files[aa].json, inst[last.who]) = {}

(***************************************************************************)
(* SpecRescale: __init__ applied to every archive of NRec records and to   *)
(* every paramLimits option.                                               *)
(***************************************************************************)
\* an instance whose constructor has not run yet
Pending(args) == [Construct(args, <<>>, 0) EXCEPT !.built = "pending"]

\* the rows a caller supplies as paramLimits: a wider prior range, a
\* narrower one, and a row with max = min
LimitRows == {<<0, MaxVal + 1>>, <<1, MaxVal>>, <<MaxVal, MaxVal>>}

RescaleArgs ==
    {DefaultArgs} \cup
    {[DefaultArgs EXCEPT !.paramLimits = GivenLimits(<<row, row>>)] :
        row \in LimitRows}

InitRescale ==
    /\ arxiv \in [1 .. NRec -> Records]
    /\ \E a \in RescaleArgs : inst = [i \in Inst |-> Pending(a)]
    /\ files = [aa \in Suffixes |-> NoFile]
    /\ last = NoCall

\* GPEmulator(basedir, ..., paramLimits=...)
Build(i) ==
    /\ inst[i].built = "pending"
    /\ \E hyp \in 1 .. NHyp :
          inst' = [inst EXCEPT ![i] = Construct(inst[i].args, arxiv, hyp)]
    /\ last' = Call("__init__", i, inst'[i].built)
    /\ UNCHANGED <<arxiv, files>>

NextRescale == Build("A")

SpecRescale == InitRescale /\ [][NextRescale]_vars

(***************************************************************************)
(* Properties of the rescaling, under SpecRescale.                         *)
(***************************************************************************)
\* the constructor got as far as the rescaling
Rescaled(self) == self.built \in {"ok", "QhullError"}

\* C9: a selected parameter with max = min in the limits is rejected: no
\* instance has divided by a zero range, and the constructor ends in a
\* degenerate-parameter failure.
C9_DegenerateRejected ==
    \A i \in Inst :
        /\ ~inst[i].divZero
        /\ (Rescaled(inst[i]) /\ ZeroRange(inst[i].paramLimits))
              => inst[i].built = "DegenerateParameterError"

\* the values of one parameter over the records
Column(data, name) == {data[r][name] : r \in 1 .. Len(data)}

\* every entry of the grid in [0,1]; in every column a record with the
\* parameter's minimum at 0 and one with its maximum at 1
UnitGrid(self) ==
    LET names == self.paramList.s
        grid == self.X_param_grid
    IN /\ \A r \in 1 .. Len(grid) : \A c \in 1 .. Len(names) :
             /\ IsFinite(grid[r][c])
             /\ QLe(QZero, grid[r][c]) /\ QLe(grid[r][c], QOne)
       /\ \A c \in 1 .. Len(names) :
             LET col == Column(self.data, names[c])
             IN /\ \E r \in 1 .. Len(grid) :
                      /\ self.data[r][names[c]] = SetMin(col)
                      /\ IsFinite(grid[r][c]) /\ QEq(grid[r][c], QZero)
                /\ \E r \in 1 .. Len(grid) :
                      /\ self.data[r][names[c]] = SetMax(col)
                      /\ IsFinite(grid[r][c]) /\ QEq(grid[r][c], QOne)

TwoDistinct(self) ==
    \A c \in 1 .. Len(self.paramList.s) :
        Cardinality(Column(self.data, self.paramList.s[c])) >= 2

ModelVals == -1 .. MaxVal + 1
Models == [ParamNames -> ModelVals]

\* the loop `for aa, par in enumerate(self.paramList)` of return_unit_call
\* (check_in_hull, predict and get_nearest_distance repeat it word for word)
UnitPoint(self, model) ==
    [aa \in 1 .. Len(self.paramList.s) |->
        NpDiv(model[self.paramList.s[aa]] - self.paramLimits[aa][1],
              self.paramLimits[aa][2] - self.paramLimits[aa][1])]

\* the test of predict with its sign turned round
HullWarningInverted(self, param) ==
    self.args.checkHulls /\ FindSimplexHit(self.X_param_grid, param)

\* predict's `if self.checkHulls: if self.hull.find_simplex(...)<0: print`
HullWarning(self, param) ==
    self.args.checkHulls /\ ~FindSimplexHit(self.X_param_grid, param)

\* predict(model): how it ends, whether it printed the hull warning and
\* whether self.gp.predict was evaluated
PredictOutcome(self, model) ==
    IF ~self.trained
        THEN [out |-> "refused", warned |-> FALSE, gpEval |-> FALSE]
    ELSE [out |-> "returned",
          warned |-> HullWarning(self, UnitPoint(self, model)),
          gpEval |-> TRUE]

SeqMax(q) == SetMax({q[j] : j \in 1 .. Len(q)})

\* the try/except at the head of emulate_p1d_Mpc: max(k_Mpc) of a scalar
\* raises, the handler compares the scalar itself and then calls
\* print(max(k_Mpc)), which raises again with no handler left
KWarning(self, k) ==
    LET top == SeqMax(TrainingKBins(self.k_bin))
    IN IF ~k.scalar
          THEN [raised |-> FALSE, kwarned |-> SeqMax(k.ks) > top]
       ELSE IF k.ks[1] > top
          THEN [raised |-> TRUE, kwarned |-> FALSE]
       ELSE [raised |-> FALSE, kwarned |-> FALSE]

\* interp1d(x, y, "cubic")(k): four points at least, and (bounds_error) no
\* requested value outside [x[0], x[-1]]
Interp1dOk(x, k) ==
    /\ Len(x) >= 4
    /\ \A j \in 1 .. Len(k.ks) : x[1] <= k.ks[j] /\ k.ks[j] <= x[Len(x)]

\* emulate_p1d_Mpc(model, k_Mpc): how it ends (return_covar changes what is
\* returned, not how the call ends: the second interp1d has the same x)
EmulateOutcome(self, model, k) ==
    LET w == KWarning(self, k)
        p == PredictOutcome(self, model)
        done == [out |-> "returned", warned |-> p.warned,
                 kwarned |-> w.kwarned, gpEval |-> p.gpEval]
    IN IF w.raised
          THEN [done EXCEPT !.out = "TypeError", !.warned = FALSE,
                            !.gpEval = FALSE]
       \* pred,err=self.predict(model) unpacks None
       ELSE IF p.out = "refused" THEN [done EXCEPT !.out = "TypeError"]
       ELSE IF /\ self.args.emu_type = "k_bin"
               /\ ~Interp1dOk(TrainingKBins(self.k_bin), k)
          THEN [done EXCEPT !.out = "ValueError"]
       ELSE done

Predict(i) ==
    /\ inst[i].built = "ok"
    /\ \E model \in Models :
          LET r == PredictOutcome(inst[i], model)
          IN last' = [Call("predict", i, r.out) EXCEPT
                         !.model = model, !.warned = r.warned,
                         !.gpEval = r.gpEval]
    /\ UNCHANGED <<arxiv, inst, files>>

\* the wavenumbers asked for: one scalar or a sequence, within the training
\* wavenumbers or above them
KRequests ==
    { [scalar |-> TRUE, ks |-> <<3>>], [scalar |-> TRUE, ks |-> <<9>>],
      [scalar |-> FALSE, ks |-> <<2, 3>>], [scalar |-> FALSE, ks |-> <<3, 9>>] }

EmulateP1D(i) ==
    /\ inst[i].built = "ok"
    /\ \E model \in Models, k \in KRequests :
          LET r == EmulateOutcome(inst[i], model, k)
          IN last' = [Call("emulate_p1d_Mpc", i, r.out) EXCEPT
                         !.model = model, !.k = k,
                         !.warned = r.warned, !.kwarned = r.kwarned,
                         !.gpEval = r.gpEval]
    /\ UNCHANGED <<arxiv, inst, files>>

(***************************************************************************)
(* SpecPredict: one instance over the standard archive.                    *)
(***************************************************************************)
PredictArgs ==
    { [DefaultArgs EXCEPT !.emu_type = e, !.checkHulls = c, !.train = t] :
        e \in {"k_bin", "polyfit"}, c \in BOOLEAN, t \in BOOLEAN }

InitPredict ==
    /\ arxiv = StdArxiv
    /\ \E a \in PredictArgs, hyp \in 1 .. NHyp :
          inst = [i \in Inst |-> IF i = "A" THEN Construct(a, StdArxiv, hyp)
                                 ELSE Pending(a)]
    /\ files = [aa \in Suffixes |-> NoFile]
    /\ last = NoCall

NextPredict ==
    \/ Train("A")
    \/ Predict("A")
    \/ EmulateP1D("A")

SpecPredict == InitPredict /\ [][NextPredict]_vars

(***************************************************************************)
(* Properties of prediction, under SpecPredict.                            *)
(***************************************************************************)
\* C5: predict and emulate_p1d_Mpc on an untrained instance are refused:
\* the untrained condition is what the caller gets, the GP posterior is not
\* evaluated, and no other exception ends the call.
C5_UntrainedRefused ==
    (last.op \in {"predict", "emulate_p1d_Mpc"} /\ ~inst[last.who].trained)
        => (last.out = "refused" /\ ~last.gpEval)

\* some parameter of the model lies outside the values the training
\* records take
OutsideRange(self, model) ==
    \E c \in 1 .. Len(self.paramList.s) :
        LET col == Column(self.data, self.paramList.s[c])
        IN model[self.paramList.s[c]] < SetMin(col)
           \/ model[self.paramList.s[c]] > SetMax(col)

\* C7 as stated: predict on a trained instance, for a model with a
\* parameter outside the training range, returns a prediction and takes the
\* warning path, whatever the construction options.
C7_ExtrapolationWarnsAlways ==
    ( /\ last.op = "predict" /\ inst[last.who].trained
      /\ OutsideRange(inst[last.who], last.model) )
    => (last.out = "returned" /\ last.gpEval /\ last.warned)

\* C7 as amended: predict on a trained instance, for a model with a
\* parameter outside the training range, returns a prediction (the GP is
\* evaluated, nothing is raised), and it takes the warning path exactly
\* when the instance was constructed with checkHulls=True.
C7_ExtrapolationAdvisory ==
    ( /\ last.op = "predict" /\ inst[last.who].trained
      /\ OutsideRange(inst[last.who], last.model) )
    => ( /\ last.out = "returned" /\ last.gpEval
         /\ last.warned <=> inst[last.who].args.checkHulls )

\* C7 witness: a warned prediction for a model outside the training range
C7_Witness ==
    /\ last.op = "predict" /\ inst[last.who].trained
    /\ OutsideRange(inst[last.who], last.model)
    /\ inst[last.who].args.checkHulls
    /\ last.out = "returned" /\ last.warned

\* C8: emulate_p1d_Mpc on a trained instance with a requested wavenumber
\* above the training wavenumbers warns and returns a prediction.
C8_KExtrapolationNonFatal ==
    ( /\ last.op = "emulate_p1d_Mpc" /\ inst[last.who].trained
      /\ \E j \in 1 .. Len(last.k.ks) :
            last.k.ks[j] > SeqMax(TrainingKBins(inst[last.who].k_bin)) )
    => (last.out = "returned" /\ last.kwarned)

(***************************************************************************)
(* Queries on the parameter grid: return_unit_call, check_in_hull,         *)
(* get_nearest_distance, get_param_dict.  A model is a Python dictionary:  *)
(* here a sequence of <<key, value>> pairs in insertion order, with        *)
(* distinct keys.                                                          *)
(***************************************************************************)
DictKeys(d) == {d[j][1] : j \in 1 .. Len(d)}
\* d[key]
DictGet(d, key) == d[CHOOSE j \in 1 .. Len(d) : d[j][1] = key][2]
\* the dictionary as the mapping it is
DictAsModel(d) == [name \in DictKeys(d) |-> DictGet(d, name)]

\* get_param_dict(point_number): model_dict[param] for param in paramList
\* (records are counted from 1 here)
GetParamDict(self, point_number) ==
    [aa \in 1 .. Len(self.paramList.s) |->
        <<self.paramList.s[aa], self.data[point_number][self.paramList.s[aa]]>>]

\* a point built from the values in the order the dictionary lists them
ReturnUnitCallByPosition(self, d) ==
    [aa \in 1 .. Len(self.paramList.s) |->
        NpDiv(d[aa][2] - self.paramLimits[aa][1],
              self.paramLimits[aa][2] - self.paramLimits[aa][1])]

\* return_unit_call(model): param[aa] from model[par], par in paramList
ReturnUnitCall(self, d) == UnitPoint(self, DictAsModel(d))

\* check_in_hull(model): `return self.hull.find_simplex(...)<0`
CheckInHullAnswer(self, d) ==
    ~FindSimplexHit(self.X_param_grid, ReturnUnitCall(self, d))

\* a finite quotient in lowest terms (the value is the same)
RECURSIVE Gcd(_, _)
Gcd(x, y) == IF y = 0 THEN x ELSE Gcd(y, x % y)
Lowest(v) ==
    LET g == Gcd(IF v.n < 0 THEN -v.n ELSE v.n, v.d)
    IN Fin(v.n \div g, v.d \div g)

\* np.sum((training_point-param)**2) for finite points, as a quotient
RECURSIVE SumSq(_, _, _)
SumSq(row, param, c) ==
    IF c > Len(row) THEN Fin(0, 1)
    ELSE LET rest == SumSq(row, param, c + 1)
             diff == Lowest(Fin(row[c].n * param[c].d - param[c].n * row[c].d,
                                row[c].d * param[c].d))
         IN Lowest(Fin(diff.n * diff.n * rest.d + rest.n * diff.d * diff.d,
                       diff.d * diff.d * rest.d))

\* shortest_distance=99.99, in hundredths
SentinelHundredths == 9999

\* a distance is kept by its square; init marks the initial 99.99
InitialDistance == [init |-> TRUE, sq |-> Fin(0, 1)]

\* new_distance < shortest_distance
DistanceLess(newSq, shortest) ==
    IF shortest.init
       THEN LET s2 == SentinelHundredths * SentinelHundredths
                q == newSq.n \div newSq.d
                r == newSq.n % newSq.d
            IN \/ q < s2 \div 10000
               \/ (q = s2 \div 10000 /\ r * 10000 < (s2 % 10000) * newSq.d)
    ELSE newSq.n * shortest.sq.d < shortest.sq.n * newSq.d

\* the loop `for training_point in self.X_param_grid`
RECURSIVE NearestLoop(_, _, _, _)
NearestLoop(grid, param, k, shortest) ==
    IF k > Len(grid) THEN shortest
    ELSE LET newSq == SumSq(grid[k], param, 1)
         IN NearestLoop(grid, param, k + 1,
               IF DistanceLess(newSq, shortest)
                  THEN [init |-> FALSE, sq |-> newSq] ELSE shortest)

\* get_nearest_distance(model)
GetNearestDistanceResult(self, d) ==
    NearestLoop(self.X_param_grid, ReturnUnitCall(self, d), 1, InitialDistance)

(***************************************************************************)
(* LinearEmulator: the columns of self.points and the point of a model.    *)
(***************************************************************************)
\* the arrays stacked by _setup_interp, in their order
LinearColumns ==
    <<"Delta2_p", "n_p", "alpha_p", "f_p", "mF", "sigT_Mpc", "gamma">>

\* the point taken in the order of the columns
PointInColumnOrder(model) ==
    [c \in 1 .. Len(LinearColumns) |-> model[LinearColumns[c]]]

\* _point_from_model(model)
PointFromModel(model) ==
    <<model["Delta2_p"], model["n_p"], model["alpha_p"], model["f_p"],
      model["mF"], model["sigT_Mpc"], model["gamma"]>>

(***************************************************************************)
(* SpecQuery: one instance, built over the standard archive with the       *)
(* parameters in either order and the limits derived or supplied, and the  *)
(* queries on it.                                                          *)
(***************************************************************************)
\* the values a queried model gives a parameter: below, inside, at the edge
\* of, and far above the values of the records
QueryVals == {-1, 0, 1, MaxVal, 100 * (MaxVal + 1)}

\* the dictionaries queried: the two parameters in either insertion order,
\* alone or with another key before, between or after them
QueryDicts ==
    LET two == { <<<<"mF", x>>, <<"Delta2_p", y>>>> : x, y \in QueryVals } \cup
               { <<<<"Delta2_p", y>>, <<"mF", x>>>> : x, y \in {0, 1, MaxVal} }
        other == <<"gamma", 1>>
    IN two \cup { <<other>> \o d : d \in two } \cup { d \o <<other>> : d \in two }
           \cup { <<d[1], other, d[2]>> : d \in two }

\* the models given to LinearEmulator
LinearNames ==
    {"Delta2_p", "n_p", "alpha_p", "f_p", "mF", "sigT_Mpc", "gamma"}
LinearModels ==
    { [name \in LinearNames |-> IF name = mark THEN v ELSE 0] :
        mark \in LinearNames, v \in 1 .. MaxVal }

QueryArgs ==
    { [DefaultArgs EXCEPT !.paramList = pl, !.paramLimits = lim] :
        pl \in {PyNone, PyList(<<"Delta2_p", "mF">>)},
        lim \in {NoLimits, GivenLimits(<<<<0, MaxVal + 1>>, <<0, MaxVal + 1>>>>)} }

\* the record of the last query: the dictionary given (rec: the record it
\* was taken from with get_param_dict, or 0), the model given to
\* LinearEmulator, and what was returned
NoQuery ==
    [op |-> "none", who |-> "A", d |-> <<>>, rec |-> 0,
     lin |-> [name \in LinearNames |-> 0], point |-> <<>>,
     answer |-> FALSE, dist |-> InitialDistance]
Query(op, who, d) == [NoQuery EXCEPT !.op = op, !.who = who, !.d = d]

InitQuery ==
    /\ arxiv = StdArxiv
    /\ \E a \in QueryArgs, hyp \in 1 .. NHyp :
          inst = [i \in Inst |-> IF i = "A" THEN Construct(a, StdArxiv, hyp)
                                 ELSE Pending(a)]
    /\ files = [aa \in Suffixes |-> NoFile]
    /\ last = NoQuery

\* what a caller passes as model: a dictionary of its own, or
\* get_param_dict(point_number) of a training record
QueryInputs(self) ==
    { [d |-> d, rec |-> 0] : d \in QueryDicts } \cup
    { [d |-> GetParamDict(self, n), rec |-> n] : n \in 1 .. Len(self.data) }

CallReturnUnitCall(i) ==
    /\ inst[i].built = "ok"
    /\ \E q \in QueryInputs(inst[i]) :
          last' = [Query("return_unit_call", i, q.d) EXCEPT
                      !.rec = q.rec, !.point = ReturnUnitCall(inst[i], q.d)]
    /\ UNCHANGED <<arxiv, inst, files>>

CallCheckInHull(i) ==
    /\ inst[i].built = "ok"
    /\ \E q \in QueryInputs(inst[i]) :
          last' = [Query("check_in_hull", i, q.d) EXCEPT
                      !.rec = q.rec, !.point = ReturnUnitCall(inst[i], q.d),
                      !.answer = CheckInHullAnswer(inst[i], q.d)]
    /\ UNCHANGED <<arxiv, inst, files>>

CallGetNearestDistance(i) ==
    /\ inst[i].built = "ok"
    /\ \E q \in QueryInputs(inst[i]) :
          last' = [Query("get_nearest_distance", i, q.d) EXCEPT
                      !.rec = q.rec, !.point = ReturnUnitCall(inst[i], q.d),
                      !.dist = GetNearestDistanceResult(inst[i], q.d)]
    /\ UNCHANGED <<arxiv, inst, files>>

\* LinearEmulator._point_from_model(model)
CallPointFromModel ==
    /\ \E m \in LinearModels :
          last' = [Query("_point_from_model", "A", <<>>) EXCEPT
                      !.lin = m, !.point = PointFromModel(m)]
    /\ UNCHANGED <<arxiv, inst, files>>

NextQuery ==
    \/ CallReturnUnitCall("A")
    \/ CallCheckInHull("A")
    \/ CallGetNearestDistance("A")
    \/ CallPointFromModel

SpecQuery == InitQuery /\ [][NextQuery]_vars

(***************************************************************************)
(* Properties of the queries, under SpecQuery.                             *)
(***************************************************************************)
\* the smallest squared distance between a row of the grid and the point
MinSq(grid, param) ==
    LET sqs == {SumSq(grid[r], param, 1) : r \in 1 .. Len(grid)}
    IN CHOOSE m \in sqs : \A o \in sqs : m.n * o.d <= o.n * m.d

\* C11: get_nearest_distance returns the smallest Euclidean distance between
\* a row of the rescaled grid and the rescaled query point, for every model;
\* for get_param_dict of a training record it returns 0.
C11_NearestIsMinimum ==
    last.op = "get_nearest_distance" =>
        /\ ~last.dist.init
        /\ QEq(last.dist.sq, MinSq(inst[last.who].X_param_grid, last.point))
        /\ last.rec # 0 => QEq(last.dist.sq, QZero)

\* the inside/outside decision of predict's hull warning: no warning
\* (with checkHulls on) means inside
PredictSaysInside(self, param) ==
    ~HullWarning([self EXCEPT !.args.checkHulls = TRUE], param)

\* C12: check_in_hull answers true exactly when the rescaled query point
\* lies in the convex hull of the rescaled training grid; it answers true
\* for the parameters of every training record, and its answer is the
\* inside/outside decision of predict's hull warning.
C12_CheckInHullMeansInside ==
    last.op = "check_in_hull" =>
        /\ last.answer <=> FindSimplexHit(inst[last.who].X_param_grid, last.point)
        /\ last.rec # 0 => last.answer
        /\ last.answer <=> PredictSaysInside(inst[last.who], last.point)

\* two dictionaries give every selected parameter the same value
SameSelected(self, d1, d2) ==
    \A aa \in 1 .. Len(self.paramList.s) :
        DictGet(d1, self.paramList.s[aa]) = DictGet(d2, self.paramList.s[aa])

\* C13: the query point is built by parameter name, in the order and with
\* the rescaling of the training grid: for get_param_dict of record i it is
\* row i of X_param_grid; it is the same for every dictionary that gives the
\* selected parameters the same values, whatever the order of its keys and
\* whatever other keys it holds; and LinearEmulator's _point_from_model
\* lists the parameters in the order of the columns of self.points.
C13_PointByName ==
    /\ last.op \in {"return_unit_call", "check_in_hull", "get_nearest_distance"}
       => /\ last.rec # 0 => last.point = inst[last.who].X_param_grid[last.rec]
          /\ \A d2 \in QueryDicts :
                SameSelected(inst[last.who], last.d, d2)
                   => ReturnUnitCall(inst[last.who], d2) = last.point
    /\ last.op = "_point_from_model" => last.point = PointInColumnOrder(last.lin)

\* C13 witness: a point returned for a dictionary that lists another key
\* first and then the two parameters in the order opposite to paramList,
\* with different values
C13_Witness ==
    /\ last.op = "return_unit_call" /\ Len(last.d) = 3
    /\ last.d[1][1] = "gamma"
    /\ last.d[2][1] = inst[last.who].paramList.s[2]
    /\ last.d[3][1] = inst[last.who].paramList.s[1]
    /\ last.d[2][2] # last.d[3][2]
    /\ last.point[1] # last.point[2]

(***************************************************************************)
(* Properties of the saved-state directory and of the fingerprint, under   *)
(* Spec.                                                                   *)
(***************************************************************************)
\* the suffixes in use
Used(dir) == {aa \in Suffixes : dir[aa].json.isfile}

\* the suffixes in use are 1..n, every .json has its .npy, and no two
\* stored fingerprints are equal
DirectoryShape(dir) ==
    /\ \A aa \in Used(dir) : aa = 1 \/ (aa - 1) \in Used(dir)
    /\ \A aa \in Suffixes : dir[aa].npy.isfile <=> dir[aa].json.isfile
    /\ \A aa, bb \in Used(dir) :
          aa # bb => dir[aa].json.dict # dir[bb].json.dict

\* a step keeps every saved state as it is, and adds at most the state of
\* suffix n+1
DirectoryStep(dir, after) ==
    /\ \A aa \in Used(dir) : after[aa] = dir[aa]
    /\ \A aa \in Used(after) \ Used(dir) :
          /\ aa = Cardinality(Used(dir)) + 1
          /\ after[aa].npy.isfile

\* C14: under any sequence of saveEmulator calls by instances sharing a
\* basedir, starting from an empty one: the suffixes in use are 1..n with no
\* gap, a new state takes suffix n+1, no saved state is overwritten or
\* removed, the stored fingerprints are pairwise distinct, and every
\* saved_emulator_N.json has its saved_emulator_N.npy.
C14_DirectoryInvariant ==
    /\ []DirectoryShape(files)
    /\ [][DirectoryStep(files, files')]_vars

\* the constructor arguments that select the training data and its unit
\* volume without entering initParams: the labels of the archive, the
\* supplied limits, and kmax_Mpc for the window of the polynomial fit
SameTraining(a, b) ==
    /\ a.p1d_label = b.p1d_label
    /\ a.skewers_label = b.skewers_label
    /\ a.paramLimits = b.paramLimits
    /\ (a.emu_type = "polyfit" /\ b.emu_type = "polyfit")
          => a.kmax_Mpc = b.kmax_Mpc

\* C15: two instances on the standard archive of one basedir with equal
\* fingerprints agree on every constructor argument that changes the
\* training set or its rescaling (p1d_label, skewers_label, kmax_Mpc of the
\* polyfit window, paramLimits), so that a load installs hyperparameters
\* optimised on the loader's own training data.
C15_FingerprintFixesTraining ==
    \A i, j \in Inst :
        ( /\ inst[i].built = "ok" /\ inst[j].built = "ok"
          /\ Standard(inst[i]) /\ Standard(inst[j])
          /\ InitParams(inst[i]) = InitParams(inst[j]) )
        => SameTraining(inst[i].args, inst[j].args)
====
